---- MODULE Spec2Model ----
(***************************************************************************)
(* Dialect adapters of geoalchemy2 for MSSQL and Oracle:                   *)
(*   src/geoalchemy2/admin/dialects/mssql.py                               *)
(*   src/geoalchemy2/admin/dialects/oracle.py                              *)
(*                                                                         *)
(* A Python str is modelled as a sequence of tokens.  A token is either    *)
(* one of the characters the code splits or joins on ("." "," " " and the  *)
(* brackets and quotes of the templates) or an atom that contains none of  *)
(* them (an identifier, a bind placeholder, a number).  str.split and      *)
(* str.join are computed on these sequences the way Python computes them.  *)
(***************************************************************************)
EXTENDS Integers, Sequences, FiniteSets, TLC

VARIABLES
    arg,        \* the FunctionElement as the host compiler handed it to a compiler
    element,    \* the same element as the compiler left it: clauses, type.srid, identifier
    op,         \* the compiler that ran on element ("none" before)
    sql,        \* the str the compiler returned
    exc,        \* the exception it raised ("none" when it returned)
    registry,   \* oracle: function name -> what @compiles registered for "oracle"
    latest,     \* oracle: per name, the oracle name the most recent mapping naming it gave
    failed,     \* oracle: whether a register_oracle_mapping call raised
    lastCompile,\* oracle: the last dispatch through the registry
    columns,    \* reflection: column_info per column (type, srid)
    binds,      \* reflection: the statements executed on inspector.bind
    lastReflect,\* reflection: the last reflect_geometry_column call
    conn        \* connection: the last load_oracle_spatial call on a DBAPI connection

vars == <<arg, element, op, sql, exc, registry, latest, failed, lastCompile,
          columns, binds, lastReflect, conn>>

compileVars == <<arg, element, op, sql, exc>>
oracleVars  == <<registry, latest, failed, lastCompile>>
adminVars   == <<columns, binds, lastReflect, conn>>

----------------------------------------------------------------------------
(* Bounds *)

MaxClauses == 3     \* clauses of an element: 0..MaxClauses
MaxQuals   == 3     \* qualifiers before a column name: 0..MaxQuals
MaxEntries == 2     \* entries of a mapping handed to register_oracle_mapping
MaxExecuted == 2    \* statements executed on inspector.bind

----------------------------------------------------------------------------
(* Python str operations on token sequences *)

\* s.find(sep): the first index (1-based here) of the token sep, 0 when absent
RECURSIVE IndexOf(_, _, _)
IndexOf(s, sep, i) ==
    IF i > Len(s) THEN 0
    ELSE IF s[i] = sep THEN i
    ELSE IndexOf(s, sep, i + 1)

\* s.split(sep) for a one-character sep: always at least one chunk
RECURSIVE Split(_, _)
Split(s, sep) ==
    LET i == IndexOf(s, sep, 1)
    IN  IF i = 0 THEN <<s>>
        ELSE <<SubSeq(s, 1, i - 1)>> \o Split(SubSeq(s, i + 1, Len(s)), sep)

\* sep.join(chunks)
RECURSIVE Join(_, _)
Join(chunks, sep) ==
    IF Len(chunks) = 0 THEN <<>>
    ELSE IF Len(chunks) = 1 THEN chunks[1]
    ELSE chunks[1] \o sep \o Join(Tail(chunks), sep)

\* one hexadecimal digit
HexDigit(n) ==
    <<"0","1","2","3","4","5","6","7","8","9","a","b","c","d","e","f">>[n + 1]

\* bytes.hex(): two digits per byte
RECURSIVE Hex(_)
Hex(b) ==
    IF Len(b) = 0 THEN <<>>
    ELSE <<HexDigit(b[1] \div 16), HexDigit(b[1] % 16)>> \o Hex(Tail(b))

----------------------------------------------------------------------------
(* The expression tree the compilers receive *)

\* the value of a BindParameter: its Python type, its text or its bytes
IntValue     == [t |-> "int",        s |-> <<"10">>,        b |-> <<>>]
StrValue     == [t |-> "str",        s |-> <<"T*F**FFF*">>, b |-> <<>>]
MemoryValue  == [t |-> "memoryview", s |-> <<>>,            b |-> <<1, 171>>]
NoValue      == [t |-> "absent",     s |-> <<>>,            b |-> <<>>]

\* memoryview.tobytes()
ToBytes(v) == [t |-> "bytes", s |-> <<>>, b |-> v.b]

\* memoryview.tobytes().hex()
ToHexStr(v) == [t |-> "str", s |-> Hex(v.b), b |-> <<>>]

\* str(value) as an f-string interpolates it
StrOf(v) ==
    CASE v.t \in {"int", "str"} -> v.s
      [] v.t = "bytes"          -> <<"b'">> \o Hex(v.b) \o <<"'">>
      [] OTHER                  -> <<"<memory>">>

\* the names a column reference is qualified with, outermost first
QualPool == <<"lnk", "srv", "db", "sch", "tbl">>

Col(q) ==
    [kind |-> "col", quals |-> q, key |-> "c", value |-> NoValue]

Bind(k, v) ==
    [kind |-> "bind", quals |-> 0, key |-> k, value |-> v]

\* a nested function call of two arguments, compiled with a comma inside
Func ==
    [kind |-> "func", quals |-> 2, key |-> "COALESCE", value |-> NoValue]

Clauses ==
    {Col(q) : q \in 0..MaxQuals}
        \cup {Bind(":p1", IntValue), Bind(":p2", StrValue), Bind(":p3", MemoryValue)}
        \cup {Func}

ClauseLists == UNION {[1..n -> Clauses] : n \in 0..MaxClauses}

SRIDs == {-1, 0, 4326}

Elements ==
    [clauses : ClauseLists, srid : SRIDs, identifier : {"generic"}]

\* only a BindParameter has the attribute .value
HasValue(c) == c.kind = "bind"

\* the compiled text of a column: its qualifiers and its name, dotted
ColumnText(c) ==
    Join([i \in 1..(c.quals + 1) |->
            IF i <= c.quals THEN <<QualPool[Len(QualPool) - c.quals + i]>>
            ELSE <<c.key>>],
         <<".">>)

\* compiler.process(clause): a column as its dotted name, a bind parameter as
\* its placeholder, a function call as name(arguments)
ProcessClause(c) ==
    CASE c.kind = "col"  -> ColumnText(c)
      [] c.kind = "bind" -> <<c.key>>
      [] OTHER           ->
            <<c.key, "(">> \o ColumnText(Col(c.quals)) \o <<",", " ", ":p0", ")">>

\* compiler.process(ClauseList): the compiled clauses joined by ", "
Process(clauses) ==
    Join([i \in 1..Len(clauses) |-> ProcessClause(clauses[i])], <<",", " ">>)

\* what a compiler hands back: the str it returned or the exception it raised,
\* and the element as it left it
Returned(text, e) == [sql |-> text, exc |-> "none", element |-> e]
Raised(x, e)      == [sql |-> <<>>, exc |-> x,      element |-> e]

\* element.identifier = name
WithIdentifier(e, name) == [e EXCEPT !.identifier = name]

\* list(element.clauses)[0].value = v
WithFirstValue(e, v) == [e EXCEPT !.clauses[1].value = v]

----------------------------------------------------------------------------
(* mssql.py: the compilers *)

\* a variant that drops the leading component of every dotted clause
fix_drops_any_first(clause) ==
    LET chunks == Split(clause, ".")
    IN  IF Len(chunks) > 1 THEN Join(Tail(chunks), <<".">>)
        ELSE Join(chunks, <<".">>)

_fix_GIS_schema_issue(clause) ==
    LET chunks == Split(clause, ".")
    IN  IF Len(chunks) > 2 THEN Join(Tail(chunks), <<".">>)
        ELSE Join(chunks, <<".">>)

STAsBinary(e) ==
    LET clauses == _fix_GIS_schema_issue(Process(e.clauses))
    IN  Returned(clauses \o <<".", "STAsBinary", "(", ")">>, e)

STGeomFromText(e) ==
    LET e1       == WithIdentifier(e, "geometry::STGeomFromText")
        compiled == Process(e1.clauses)
        srid     == IF e1.srid > 0 THEN e1.srid ELSE 0
    IN  Returned(<<e1.identifier, "(">> \o compiled
                    \o <<",", " ", ToString(srid), ")">>, e1)

\* a variant that emits every SRID but -1
STGeomFromWKB_nonnegative(e) ==
    LET e1 == WithIdentifier(e, "geometry::STGeomFromWKB")
    IN  IF Len(e1.clauses) = 0 THEN Raised("IndexError", e1)
        ELSE IF ~HasValue(e1.clauses[1]) THEN Raised("AttributeError", e1)
        ELSE
            LET wkb_data == e1.clauses[1].value
                e2       == IF wkb_data.t = "memoryview"
                            THEN WithFirstValue(e1, ToBytes(wkb_data))
                            ELSE e1
                compiled == Process(e2.clauses)
                srid     == e2.srid
            IN  IF srid >= 0
                THEN Returned(<<e2.identifier, "(">> \o compiled
                                \o <<",", " ", ToString(srid), ")">>, e2)
                ELSE Returned(<<e2.identifier, "(">> \o compiled \o <<")">>, e2)

STGeomFromWKB(e) ==
    LET e1 == WithIdentifier(e, "geometry::STGeomFromWKB")
    IN  IF Len(e1.clauses) = 0 THEN Raised("IndexError", e1)
        ELSE IF ~HasValue(e1.clauses[1]) THEN Raised("AttributeError", e1)
        ELSE
            LET wkb_data == e1.clauses[1].value
                e2       == IF wkb_data.t = "memoryview"
                            THEN WithFirstValue(e1, ToBytes(wkb_data))
                            ELSE e1
                compiled == Process(e2.clauses)
                srid     == e2.srid
            IN  IF srid > 0
                THEN Returned(<<e2.identifier, "(">> \o compiled
                                \o <<",", " ", ToString(srid), ")">>, e2)
                ELSE Returned(<<e2.identifier, "(">> \o compiled \o <<")">>, e2)

STWithin(e) ==
    IF Len(e.clauses) = 0 THEN Raised("IndexError", e)
    ELSE
        LET compiled_obj     == _fix_GIS_schema_issue(ProcessClause(e.clauses[1]))
            clauses          == SubSeq(e.clauses, 2, Len(e.clauses))
            compiled_clauses == Process(clauses)
        IN  Returned(compiled_obj \o <<".", "STWithin", "(">> \o compiled_clauses
                        \o <<")", "=", "1">>, e)

\* a variant whose argument slice runs to the last clause: clauses[1:]
STDWithin_keeps_last(e) ==
    IF Len(e.clauses) = 0 THEN Raised("IndexError", e)
    ELSE IF ~HasValue(e.clauses[Len(e.clauses)]) THEN Raised("AttributeError", e)
    ELSE
        LET compiled_obj     == _fix_GIS_schema_issue(ProcessClause(e.clauses[1]))
            d                == e.clauses[Len(e.clauses)].value
            compiled_clauses == Process(SubSeq(e.clauses, 2, Len(e.clauses)))
        IN  Returned(compiled_obj \o <<".", "STDistance", "(">> \o compiled_clauses
                        \o <<")", " ", "<=", " ">> \o StrOf(d), e)

STDWithin(e) ==
    IF Len(e.clauses) = 0 THEN Raised("IndexError", e)
    ELSE IF ~HasValue(e.clauses[Len(e.clauses)]) THEN Raised("AttributeError", e)
    ELSE
        LET compiled_obj     == _fix_GIS_schema_issue(ProcessClause(e.clauses[1]))
            d                == e.clauses[Len(e.clauses)].value
            clauses          == SubSeq(e.clauses, 2, Len(e.clauses) - 1)
            compiled_clauses == Process(clauses)
        IN  Returned(compiled_obj \o <<".", "STDistance", "(">> \o compiled_clauses
                        \o <<")", " ", "<=", " ">> \o StrOf(d), e)

STCoveredBy(e) ==
    IF Len(e.clauses) = 0 THEN Raised("IndexError", e)
    ELSE
        LET compiled_obj     == _fix_GIS_schema_issue(ProcessClause(e.clauses[1]))
            clauses          == SubSeq(e.clauses, 2, Len(e.clauses))
            compiled_clauses == Process(clauses)
        IN  Returned(compiled_obj \o <<".", "STDistance", "(">> \o compiled_clauses
                        \o <<")", " ", "<=", " ", "0">>, e)

STRelate(e) ==
    IF Len(e.clauses) = 0 THEN Raised("IndexError", e)
    ELSE IF ~HasValue(e.clauses[Len(e.clauses)]) THEN Raised("AttributeError", e)
    ELSE
        LET compiled_obj     == _fix_GIS_schema_issue(ProcessClause(e.clauses[1]))
            pattern          == e.clauses[Len(e.clauses)].value
            clauses          == SubSeq(e.clauses, 2, Len(e.clauses) - 1)
            compiled_clauses == Process(clauses)
        IN  Returned(compiled_obj \o <<".", "STRelate", "(">> \o compiled_clauses
                        \o <<",", " ", "'">> \o StrOf(pattern)
                        \o <<"'", ")", " ", "=", " ", "1">>, e)

----------------------------------------------------------------------------
(* oracle.py: the compilers *)

\* the closure _compile_oracle that _compiles_oracle(cls, fn) registers
_compile_oracle(fn, e) ==
    Returned(fn \o <<"(">> \o Process(e.clauses) \o <<")">>, e)

_compile_ST_Within_Oracle(e) ==
    LET e1       == WithIdentifier(e, "SDO_INSIDE")
        compiled == Process(e1.clauses)
    IN  Returned(<<e1.identifier, "(">> \o compiled
                    \o <<")", " ", "=", " ", "'TRUE'">>, e1)

_compile_ST_GeomFromText_Oracle(e) ==
    LET e1       == WithIdentifier(e, "SDO_GEOMETRY")
        compiled == Process(e1.clauses)
        srid     == e1.srid
    IN  IF srid > 0
        THEN Returned(<<e1.identifier, "(">> \o compiled
                        \o <<",", " ", ToString(srid), ")">>, e1)
        ELSE Returned(<<e1.identifier, "(">> \o compiled \o <<")">>, e1)

\* a variant that joins the list back with ", "
WrapFirst_joins_with_space(compiled_list) ==
    Join([compiled_list EXCEPT ![1] = <<"TO_BLOB", "(">> \o @ \o <<")">>], <<",", " ">>)

\* compiled_list[0] = f"TO_BLOB({compiled_list[0]})"; ','.join(compiled_list)
WrapFirst(compiled_list) ==
    Join([compiled_list EXCEPT ![1] = <<"TO_BLOB", "(">> \o @ \o <<")">>], <<",">>)

_compile_GeomFromWKB_Oracle(e) ==
    LET e1 == WithIdentifier(e, "SDO_GEOMETRY")
    IN  IF Len(e1.clauses) = 0 THEN Raised("IndexError", e1)
        ELSE IF ~HasValue(e1.clauses[1]) THEN Raised("AttributeError", e1)
        ELSE
            LET wkb_data == e1.clauses[1].value
                e2       == IF wkb_data.t = "memoryview"
                            THEN WithFirstValue(e1, ToHexStr(wkb_data))
                            ELSE e1
                compiled == WrapFirst(Split(Process(e2.clauses), ","))
                srid     == e2.srid
            IN  IF srid > 0
                THEN Returned(<<e2.identifier, "(">> \o compiled
                                \o <<",", " ", ToString(srid), ")">>, e2)
                ELSE Returned(<<e2.identifier, "(">> \o compiled \o <<")">>, e2)

----------------------------------------------------------------------------
(* oracle.py: the registry that compiles(cls, "oracle") writes *)

\* the attributes of geoalchemy2.functions that the two dialect modules name
FunctionNames ==
    {"ST_AsBinary", "ST_AsEWKB", "ST_AsGeoJSON", "ST_Within", "ST_GeomFromEWKB",
     "ST_GeomFromWKB", "ST_GeomFromEWKT", "ST_GeomFromText", "ST_DWithin"}

TO_WKBGEOMETRY == <<"SDO_UTIL", ".", "TO_WKBGEOMETRY">>
TO_GEOJSON     == <<"SDO_UTIL", ".", "TO_GEOJSON">>
SDO_DISTANCE   == <<"SDO_GEOM", ".", "SDO_DISTANCE">>

\* a dict in iteration order
_ORACLE_FUNCTIONS ==
    << [name |-> "ST_AsBinary",  fn |-> TO_WKBGEOMETRY],
       [name |-> "ST_AsEWKB",    fn |-> TO_WKBGEOMETRY],
       [name |-> "ST_AsGeoJSON", fn |-> TO_GEOJSON] >>

\* no function has a compiler for "oracle" before the module is loaded
Unregistered == [n \in FunctionNames |-> [kind |-> "default", fn |-> <<n>>]]

\* a variant that keeps a compiler already registered by an earlier mapping
_compiles_oracle_keeps_existing(reg, cls, fn) ==
    IF reg[cls].kind = "mapped" THEN reg
    ELSE [reg EXCEPT ![cls] = [kind |-> "mapped", fn |-> fn]]

\* compiles(getattr(functions, cls), "oracle")(_compile_oracle), cls an attribute
_compiles_oracle(reg, cls, fn) ==
    [reg EXCEPT ![cls] = [kind |-> "mapped", fn |-> fn]]

\* the loop of register_oracle_mapping from entry i on: getattr raises
\* AttributeError at the first name geoalchemy2.functions lacks
RECURSIVE RegisterFrom(_, _, _)
RegisterFrom(reg, mapping, i) ==
    IF i > Len(mapping) THEN [registry |-> reg, exc |-> "none"]
    ELSE IF mapping[i].name \notin FunctionNames
         THEN [registry |-> reg, exc |-> "AttributeError"]
    ELSE RegisterFrom(_compiles_oracle(reg, mapping[i].name, mapping[i].fn),
                      mapping, i + 1)

register_oracle_mapping(reg, mapping) == RegisterFrom(reg, mapping, 1)

\* @compiles(functions.<name>, "oracle") on the function called compiler
Decorated(reg, name, compiler) ==
    [reg EXCEPT ![name] = [kind |-> "custom", fn |-> <<compiler>>]]

\* the registry once oracle.py is imported
ModuleLoaded ==
    LET r0 == register_oracle_mapping(Unregistered, _ORACLE_FUNCTIONS).registry
        r1 == Decorated(r0, "ST_Within", "_compile_ST_Within_Oracle")
        r2 == Decorated(r1, "ST_GeomFromEWKB", "_compile_GeomFromWKB_Oracle")
        r3 == Decorated(r2, "ST_GeomFromWKB", "_compile_GeomFromWKB_Oracle")
        r4 == Decorated(r3, "ST_GeomFromEWKT", "_compile_ST_GeomFromText_Oracle")
    IN  Decorated(r4, "ST_GeomFromText", "_compile_ST_GeomFromText_Oracle")

\* compiling the function called name for the oracle dialect
Dispatch(reg, name, e) ==
    CASE reg[name].kind = "mapped" -> _compile_oracle(reg[name].fn, e)
      [] reg[name].fn = <<"_compile_ST_Within_Oracle">> ->
            _compile_ST_Within_Oracle(e)
      [] reg[name].fn = <<"_compile_GeomFromWKB_Oracle">> ->
            _compile_GeomFromWKB_Oracle(e)
      [] reg[name].fn = <<"_compile_ST_GeomFromText_Oracle">> ->
            _compile_ST_GeomFromText_Oracle(e)
      [] OTHER -> Returned(<<name, "(">> \o Process(e.clauses) \o <<")">>, e)

\* the names and the oracle names the mappings are drawn from
MappingNames == {"ST_AsBinary", "ST_Within", "ST_DWithin", "ST_Unknown"}
OracleNames  == {TO_WKBGEOMETRY, SDO_DISTANCE}

Entries == [name : MappingNames, fn : OracleNames]

\* dicts of at most MaxEntries entries: no name twice
Mappings ==
    {m \in UNION {[1..n -> Entries] : n \in 0..MaxEntries} :
        \A i, j \in 1..Len(m) : m[i].name = m[j].name => i = j}

\* the elements compiled through the registry
OracleInputs ==
    {[clauses |-> <<Col(1)>>, srid |-> -1, identifier |-> "generic"],
     [clauses |-> <<Bind(":p3", MemoryValue), Func>>, srid |-> 4326,
      identifier |-> "generic"]}

Unset == <<>>

\* per name, the oracle name of the most recent mapping that holds the name
LatestAfter(l, mapping) ==
    [n \in DOMAIN l |->
        IF \E i \in 1..Len(mapping) : mapping[i].name = n
        THEN mapping[CHOOSE i \in 1..Len(mapping) : mapping[i].name = n].fn
        ELSE l[n]]

NoCompile == [name |-> "none", input |-> <<>>, sql |-> <<>>, exc |-> "none"]

InitOracle ==
    /\ registry = ModuleLoaded
    /\ latest = LatestAfter([n \in FunctionNames \cup MappingNames |-> Unset],
                            _ORACLE_FUNCTIONS)
    /\ failed = FALSE
    /\ lastCompile = NoCompile

----------------------------------------------------------------------------
(* Column reflection: reflect_geometry_column of mssql.py and oracle.py *)

\* a Python value that is an int or None
PyInt(n) == <<n>>
None   == <<>>

\* fetchone() hands back None or a row of one field; both None and a row
\* without fields are false in "if srid_res:"
NoRow    == <<>>
Row(f)   == <<f>>
Truthy(r) == Len(r) > 0

ColumnNames == {"geom", "id"}
Table == [schema |-> "gis", name |-> "lake"]

\* str.upper() on the names of the table and its columns
Upper(name) ==
    CASE name = "geom" -> "GEOM"
      [] name = "id"   -> "ID"
      [] name = "lake" -> "LAKE"
      [] OTHER         -> name

\* column_info: "type" is a Geometry with its srid, another type, or missing
Geometry(srid) == [type |-> "Geometry", srid |-> srid]
OtherInfos == {[type |-> "Integer", srid |-> None], [type |-> "absent", srid |-> None]}

MssqlStatement(table, name) ==
    <<"SELECT TOP(1) ", name, ".STSrid from ", table.schema, ".", table.name>>

OracleStatement(table, name) ==
    <<"SELECT SDO_SRID FROM MDSYS.SDO_GEOM_METADATA_TABLE WHERE SDO_TABLE_NAME='",
      table.schema, ".", Upper(table.name), "' AND SDO_COLUMN_NAME='", Upper(name), "'">>

\* a variant that takes the fetched srid only when the srid itself is true
reflect_takes_nonzero_only(statement, info, fetched) ==
    IF info.type # "Geometry" THEN [info |-> info, executed |-> <<>>]
    ELSE IF info.srid = PyInt(-1)
    THEN [info     |-> IF Truthy(fetched) /\ fetched[1] \notin {None, PyInt(0)}
                       THEN [info EXCEPT !.srid = fetched[1]] ELSE info,
          executed |-> <<statement>>]
    ELSE [info |-> info, executed |-> <<>>]

\* the body both dialects share: statement is the dialect's query, fetched
\* what the database answers it with; hands back column_info as it leaves
\* it and the statements it executed on inspector.bind
reflect_geometry_column(statement, info, fetched) ==
    IF info.type # "Geometry" THEN [info |-> info, executed |-> <<>>]
    ELSE IF info.srid = PyInt(-1)
    THEN [info     |-> IF Truthy(fetched)
                       THEN [info EXCEPT !.srid = fetched[1]] ELSE info,
          executed |-> <<statement>>]
    ELSE [info |-> info, executed |-> <<>>]

mssql_reflect_geometry_column(table, name, info, fetched) ==
    reflect_geometry_column(MssqlStatement(table, name), info, fetched)

oracle_reflect_geometry_column(table, name, info, fetched) ==
    reflect_geometry_column(OracleStatement(table, name), info, fetched)

\* what the database may answer the srid query with
Fetched == {NoRow, Row(PyInt(0)), Row(PyInt(4326)), Row(None)}

NoReflect ==
    [dialect |-> "none", name |-> "none", before |-> Geometry(None),
     fetched |-> NoRow, executedBefore |-> 0]

----------------------------------------------------------------------------
(* Connection set-up: load_oracle_spatial of oracle.py *)

\* a str as its characters
Express  == <<"E", "x", "p", "r", "e", "s", "s">>
Fragments ==
    { <<>>,
      <<"O", "r", "a", "c", "l", "e", " ">>,
      Express,
      <<"E", "x", "p", "r">>,
      <<"e", "s", "s">>,
      <<"e", "x", "p", "r", "e", "s", "s">>,
      <<" ", "E", "d", "i", "t", "i", "o", "n">>,
      <<"X", "E">> }

\* the banners the version query may answer with
Banners == {a \o b \o c : a, b, c \in Fragments}

\* str.find(sub): the lowest index (from 0) at which sub starts, -1 when none
RECURSIVE FindFrom(_, _, _)
FindFrom(s, sub, i) ==
    IF i + Len(sub) > Len(s) THEN -1
    ELSE IF SubSeq(s, i + 1, i + Len(sub)) = sub THEN i
    ELSE FindFrom(s, sub, i + 1)

Find(s, sub) == FindFrom(s, sub, 0)

\* a variant that takes the index 0 for "not found"
IsExpress_positive_index(banner) == Find(banner, Express) > 0

\* version_cur.fetchone()[0].find('Express') != -1
IsExpress(banner) == Find(banner, Express) # -1

VersionQuery == "SELECT banner FROM v$version WHERE banner LIKE 'Oracle%'"

\* the calls made on the connection and its cursor, in order, and the
\* exception raised; fetched is what fetchone() hands back
load_oracle_spatial_driver(fetched) ==
    LET log == <<"cursor", VersionQuery, "fetchone">>
    IN  IF fetched = NoRow THEN [log |-> log, exc |-> "TypeError"]
        ELSE IF IsExpress(fetched[1]) THEN [log |-> log, exc |-> "RuntimeError"]
        ELSE [log |-> log, exc |-> "none"]

init_oracle_spatial(log) == log \o <<"init_oracle_spatial">>

load_oracle_spatial(fetched) ==
    LET driver == load_oracle_spatial_driver(fetched)
    IN  IF driver.exc # "none" THEN driver
        ELSE [log |-> init_oracle_spatial(driver.log), exc |-> "none"]

NotLoaded == [fetched |-> NoRow, log |-> <<>>, exc |-> "none"]

----------------------------------------------------------------------------
(* The reflection and connection state before any call *)

InitAdmin ==
    /\ columns = [n \in ColumnNames |-> Geometry(PyInt(-1))]
    /\ binds = <<>>
    /\ lastReflect = NoReflect
    /\ conn = NotLoaded

----------------------------------------------------------------------------
(* The compilers as steps: the host compiler hands an element to one of them *)

InitCompile ==
    /\ arg \in Elements
    /\ element = arg
    /\ op = "none"
    /\ sql = <<>>
    /\ exc = "none"
    /\ InitOracle
    /\ InitAdmin

\* the compiler called name runs on the element and leaves result
Compiled(name, result) ==
    /\ op = "none"
    /\ op' = name
    /\ sql' = result.sql
    /\ exc' = result.exc
    /\ element' = result.element
    /\ UNCHANGED <<arg, oracleVars, adminVars>>

MssqlSTAsBinary      == Compiled("STAsBinary", STAsBinary(element))
MssqlSTGeomFromText  == Compiled("STGeomFromText", STGeomFromText(element))
MssqlSTGeomFromWKB   == Compiled("STGeomFromWKB", STGeomFromWKB(element))
MssqlSTWithin        == Compiled("STWithin", STWithin(element))
MssqlSTDWithin       == Compiled("STDWithin", STDWithin(element))
MssqlSTCoveredBy     == Compiled("STCoveredBy", STCoveredBy(element))
MssqlSTRelate        == Compiled("STRelate", STRelate(element))
OracleSTWithin       == Compiled("_compile_ST_Within_Oracle",
                                 _compile_ST_Within_Oracle(element))
OracleSTGeomFromText == Compiled("_compile_ST_GeomFromText_Oracle",
                                 _compile_ST_GeomFromText_Oracle(element))
OracleGeomFromWKB    == Compiled("_compile_GeomFromWKB_Oracle",
                                 _compile_GeomFromWKB_Oracle(element))

NextCompile ==
    \/ MssqlSTAsBinary
    \/ MssqlSTGeomFromText
    \/ MssqlSTGeomFromWKB
    \/ MssqlSTWithin
    \/ MssqlSTDWithin
    \/ MssqlSTCoveredBy
    \/ MssqlSTRelate
    \/ OracleSTWithin
    \/ OracleSTGeomFromText
    \/ OracleGeomFromWKB

SpecCompile == InitCompile /\ [][NextCompile]_vars

----------------------------------------------------------------------------
(* The registry as steps: mappings are registered, functions are compiled *)

InitRegistry ==
    /\ arg = [clauses |-> <<>>, srid |-> -1, identifier |-> "generic"]
    /\ element = arg
    /\ op = "none"
    /\ sql = <<>>
    /\ exc = "none"
    /\ InitOracle
    /\ InitAdmin

RegisterOracleMapping ==
    \E mapping \in Mappings :
        LET result == register_oracle_mapping(registry, mapping)
        IN  /\ registry' = result.registry
            /\ failed' = (failed \/ result.exc # "none")
            /\ latest' = LatestAfter(latest, mapping)
            /\ UNCHANGED <<lastCompile, compileVars, adminVars>>

CompileOracle ==
    \E name \in FunctionNames, e \in OracleInputs :
        LET result == Dispatch(registry, name, e)
        IN  /\ lastCompile' = [name |-> name, input |-> e.clauses,
                               sql |-> result.sql, exc |-> result.exc]
            /\ UNCHANGED <<registry, latest, failed, compileVars, adminVars>>

NextRegistry ==
    \/ RegisterOracleMapping
    \/ CompileOracle

SpecRegistry == InitRegistry /\ [][NextRegistry]_vars

----------------------------------------------------------------------------
(* Reflection as steps: the inspector reflects the columns of a table *)

InitReflect ==
    /\ arg = [clauses |-> <<>>, srid |-> -1, identifier |-> "generic"]
    /\ element = arg
    /\ op = "none"
    /\ sql = <<>>
    /\ exc = "none"
    /\ InitOracle
    /\ columns \in [ColumnNames ->
                        {Geometry(PyInt(-1)), Geometry(PyInt(4326))} \cup OtherInfos]
    /\ binds = <<>>
    /\ lastReflect = NoReflect
    /\ conn = NotLoaded

Reflected(dialect, name, fetched, result) ==
    /\ Len(binds) + Len(result.executed) <= MaxExecuted
    /\ columns' = [columns EXCEPT ![name] = result.info]
    /\ binds' = binds \o result.executed
    /\ lastReflect' = [dialect |-> dialect, name |-> name, before |-> columns[name],
                       fetched |-> fetched, executedBefore |-> Len(binds)]
    /\ UNCHANGED <<conn, compileVars, oracleVars>>

ReflectMssql ==
    \E name \in ColumnNames, fetched \in Fetched :
        Reflected("mssql", name, fetched,
                  mssql_reflect_geometry_column(Table, name, columns[name], fetched))

ReflectOracle ==
    \E name \in ColumnNames, fetched \in Fetched :
        Reflected("oracle", name, fetched,
                  oracle_reflect_geometry_column(Table, name, columns[name], fetched))

NextReflect ==
    \/ ReflectMssql
    \/ ReflectOracle

SpecReflect == InitReflect /\ [][NextReflect]_vars

----------------------------------------------------------------------------
(* Connecting as steps: load_oracle_spatial runs on each new connection *)

InitLoad == InitRegistry

LoadOracleSpatial ==
    \E fetched \in {NoRow} \cup {Row(b) : b \in Banners} :
        LET result == load_oracle_spatial(fetched)
        IN  /\ conn' = [fetched |-> fetched, log |-> result.log, exc |-> result.exc]
            /\ UNCHANGED <<columns, binds, lastReflect, compileVars, oracleVars>>

NextLoad == LoadOracleSpatial

SpecLoad == InitLoad /\ [][NextLoad]_vars

----------------------------------------------------------------------------
(* Reading a compiler's output back *)

Returns(name) == op = name /\ exc = "none"

\* the positions of the token t in s
Positions(s, t) == {i \in 1..Len(s) : s[i] = t}

\* how many dot-separated components s has
Components(s) == Cardinality(Positions(s, ".")) + 1

\* s without its first dot-separated component (s has a dot)
AfterFirstDot(s) ==
    LET first == CHOOSE i \in Positions(s, ".") : \A j \in Positions(s, ".") : i <= j
    IN  SubSeq(s, first + 1, Len(s))

Max(a, b) == IF a >= b THEN a ELSE b
Min(a, b) == IF a <= b THEN a ELSE b

EndsWith(s, tail) ==
    /\ Len(s) >= Len(tail)
    /\ SubSeq(s, Len(s) - Len(tail) + 1, Len(s)) = tail

StartsWith(s, head) ==
    /\ Len(s) >= Len(head)
    /\ SubSeq(s, 1, Len(head)) = head

\* a token that names a table, a schema or a column
IsName(t) == t = "c" \/ \E i \in 1..Len(QualPool) : QualPool[i] = t

\* s holds a column reference of three or more components
HasQualifiedReference(s) ==
    \E i \in 1..Len(s) :
        /\ i + 4 <= Len(s)
        /\ IsName(s[i]) /\ s[i + 1] = "." /\ IsName(s[i + 2])
        /\ s[i + 3] = "." /\ IsName(s[i + 4])

\* the clauses the compiler was handed
N == Len(arg.clauses)
Middle == SubSeq(arg.clauses, 2, N - 1)
Rest   == SubSeq(arg.clauses, 2, N)

----------------------------------------------------------------------------
(* C7: _fix_GIS_schema_issue removes exactly the first dot-separated       *)
(* component of a clause of more than two components and returns a clause  *)
(* of one or two components unchanged; the result of k components in has   *)
(* max(k-1, min(k,2)) components.  STAsBinary applies it to the compiled   *)
(* clause list and appends ".STAsBinary()".                                *)
C7_FixRemovesOnlyTheFirstOfMany ==
    Returns("STAsBinary") =>
        LET clause == Process(arg.clauses)
            k      == Components(clause)
            fixed  == SubSeq(sql, 1, Len(sql) - 4)
        IN  /\ EndsWith(sql, <<".", "STAsBinary", "(", ")">>)
            /\ k > 2  => fixed = AfterFirstDot(clause)
            /\ k <= 2 => fixed = clause
            /\ Components(fixed) = Max(k - 1, Min(k, 2))

C7_Witness ==
    /\ Returns("STAsBinary")
    /\ Components(Process(arg.clauses)) = 4
    /\ Components(SubSeq(sql, 1, Len(sql) - 4)) = 3

----------------------------------------------------------------------------
SchemaQualifiedOperands ==
    /\ N >= 1
    /\ \A i \in 1..N :
        \/ arg.clauses[i].kind = "col" /\ arg.clauses[i].quals >= 2
        \/ i = N /\ N >= 2 /\ op \in {"STDWithin", "STRelate"}
                 /\ arg.clauses[i].kind = "bind"

(* C5: when every operand is a column qualified by a schema (or more),    *)
(* the SQL of STAsBinary, STWithin, STDWithin, STCoveredBy and STRelate    *)
(* holds no column reference of more than two components.  The compilers   *)
(* break it: only the receiver is rewritten, and by one component only.    *)
C5_NoSchemaQualifiedReference ==
    (/\ op \in {"STAsBinary", "STWithin", "STDWithin", "STCoveredBy", "STRelate"}
     /\ exc = "none"
     /\ SchemaQualifiedOperands)
        => ~HasQualifiedReference(sql)

----------------------------------------------------------------------------
Receiver == _fix_GIS_schema_issue(ProcessClause(arg.clauses[1]))

----------------------------------------------------------------------------
Commas(s) == Cardinality(Positions(s, ","))

\* the argument list of s is the compiled clauses and n as one more argument
SridAppended(s, n) ==
    /\ EndsWith(s, <<",", " ", ToString(n), ")">>)
    /\ Commas(s) = Commas(Process(arg.clauses)) + 1

\* the argument list of s is the compiled clauses and nothing more
NoSridArgument(s) ==
    /\ EndsWith(s, <<")">>)
    /\ Commas(s) = Commas(Process(arg.clauses))

(* C4: STGeomFromWKB (mssql), _compile_GeomFromWKB_Oracle and              *)
(* _compile_ST_GeomFromText_Oracle append ", <srid>" as the last argument  *)
(* if and only if srid > 0; STGeomFromText (mssql) always appends an SRID  *)
(* argument, srid when srid > 0 and 0 otherwise; none of them emits -1.    *)
C4_SridArgumentFollowsTheType ==
    /\ (/\ op \in {"STGeomFromWKB", "_compile_GeomFromWKB_Oracle",
                   "_compile_ST_GeomFromText_Oracle"}
        /\ exc = "none") =>
            /\ arg.srid > 0  => SridAppended(sql, arg.srid)
            /\ arg.srid <= 0 => NoSridArgument(sql)
    /\ Returns("STGeomFromText") =>
            /\ arg.srid > 0  => SridAppended(sql, arg.srid)
            /\ arg.srid <= 0 => SridAppended(sql, 0)
    /\ op \in {"STGeomFromWKB", "_compile_GeomFromWKB_Oracle",
               "_compile_ST_GeomFromText_Oracle", "STGeomFromText"}
            => Positions(sql, "-1") = {}

C4_Witness ==
    /\ Returns("STGeomFromText")
    /\ arg.srid = -1
    /\ N = 1
    /\ sql = <<"geometry::STGeomFromText", "(", ":p2", ",", " ", "0", ")">>

----------------------------------------------------------------------------
SridSuffix == IF arg.srid > 0 THEN <<",", " ", ToString(arg.srid)>> ELSE <<>>

OtherArguments == IF N > 1 THEN <<",", " ">> \o Process(Rest) ELSE <<>>

(* C8: _compile_GeomFromWKB_Oracle wraps the first compiled argument in    *)
(* TO_BLOB(...) and leaves the others unchanged and in order:              *)
(* SDO_GEOMETRY(TO_BLOB(a1), a2, ..., an[, srid]); a memoryview value of   *)
(* the first clause is replaced by the hexadecimal string of its bytes.    *)
C8_FirstArgumentWrapped ==
    Returns("_compile_GeomFromWKB_Oracle") =>
        /\ sql = <<"SDO_GEOMETRY", "(", "TO_BLOB", "(">> \o ProcessClause(arg.clauses[1])
                    \o <<")">> \o OtherArguments \o SridSuffix \o <<")">>
        /\ arg.clauses[1].value = MemoryValue =>
                element.clauses[1].value =
                    [t |-> "str", s |-> <<"0", "1", "a", "b">>, b |-> <<>>]
        /\ arg.clauses[1].value # MemoryValue =>
                element.clauses[1] = arg.clauses[1]
        /\ \A i \in 2..N : element.clauses[i] = arg.clauses[i]

C8_Witness ==
    /\ Returns("_compile_GeomFromWKB_Oracle")
    /\ arg.clauses = <<Bind(":p3", MemoryValue), Func>>
    /\ arg.srid = 4326
    /\ sql = <<"SDO_GEOMETRY", "(", "TO_BLOB", "(", ":p3", ")", ",", " ",
               "COALESCE", "(", "sch", ".", "tbl", ".", "c", ",", " ", ":p0", ")",
               ",", " ", "4326", ")">>

----------------------------------------------------------------------------
CompilesTo(name, fn) ==
    \A e \in OracleInputs :
        /\ Dispatch(registry, name, e).exc = "none"
        /\ Dispatch(registry, name, e).sql = fn \o <<"(">> \o Process(e.clauses) \o <<")">>

(* C3: while every register_oracle_mapping call has returned, a name that  *)
(* some mapping held compiles to <oracle name>(<compiled arguments>) for   *)
(* the oracle name of the most recent mapping that held it, the mapping    *)
(* registered at import included, and a name no mapping held compiles as   *)
(* it did at import: ST_AsBinary and ST_AsEWKB to                          *)
(* SDO_UTIL.TO_WKBGEOMETRY(...) and ST_AsGeoJSON to SDO_UTIL.TO_GEOJSON(...) *)
(* until a later mapping names them.                                       *)
C3_LatestMappingDecides ==
    ~failed =>
        \A name \in FunctionNames :
            /\ latest[name] # Unset => CompilesTo(name, latest[name])
            /\ latest[name] = Unset => registry[name] = ModuleLoaded[name]
            /\ (name \in {"ST_AsEWKB", "ST_AsGeoJSON"}) =>
                    latest[name] = IF name = "ST_AsEWKB" THEN TO_WKBGEOMETRY
                                   ELSE TO_GEOJSON

C3_Witness ==
    /\ ~failed
    /\ latest["ST_AsBinary"] = SDO_DISTANCE
    /\ latest["ST_Within"] = TO_WKBGEOMETRY
    /\ lastCompile.name = "ST_AsBinary"
    /\ lastCompile.input = <<Col(1)>>
    /\ lastCompile.sql = <<"SDO_GEOM", ".", "SDO_DISTANCE", "(", "tbl", ".", "c", ")">>

----------------------------------------------------------------------------
ReflectedUnknownSrid ==
    /\ lastReflect.dialect \in {"mssql", "oracle"}
    /\ lastReflect.before = Geometry(PyInt(-1))

(* C1: in both dialects, reflect_geometry_column on a Geometry column      *)
(* whose srid is -1 executes exactly one statement on inspector.bind;      *)
(* afterwards the srid is the first field of the fetched row when a row    *)
(* was fetched and still -1 when none was.                                 *)
C1_ReflectionFetchesTheSrid ==
    ReflectedUnknownSrid =>
        /\ Len(binds) = lastReflect.executedBefore + 1
        /\ binds[Len(binds)] =
                IF lastReflect.dialect = "mssql"
                THEN MssqlStatement(Table, lastReflect.name)
                ELSE OracleStatement(Table, lastReflect.name)
        /\ lastReflect.fetched # NoRow =>
                columns[lastReflect.name] = Geometry(lastReflect.fetched[1])
        /\ lastReflect.fetched = NoRow =>
                columns[lastReflect.name] = Geometry(PyInt(-1))

C1_Witness ==
    /\ ReflectedUnknownSrid
    /\ lastReflect.dialect = "oracle"
    /\ lastReflect.fetched = Row(PyInt(0))
    /\ columns[lastReflect.name].srid = PyInt(0)
    /\ Len(binds) = 2

----------------------------------------------------------------------------
Contains(s, sub) ==
    \E i \in 1..Len(s) : i + Len(sub) - 1 <= Len(s) /\ SubSeq(s, i, i + Len(sub) - 1) = sub

Loaded == conn.log # <<>> /\ conn.fetched # NoRow

(* C2: load_oracle_spatial runs the version check before                   *)
(* init_oracle_spatial: a fetched banner that contains 'Express' makes it  *)
(* raise RuntimeError without init_oracle_spatial being called; with any   *)
(* other banner it runs exactly one query on a cursor of the connection,   *)
(* raises nothing and then calls init_oracle_spatial.                      *)
C2_VersionCheckBeforeInit ==
    Loaded =>
        /\ Contains(conn.fetched[1], Express) =>
                /\ conn.exc = "RuntimeError"
                /\ Positions(conn.log, "init_oracle_spatial") = {}
        /\ ~Contains(conn.fetched[1], Express) =>
                /\ conn.exc = "none"
                /\ conn.log = <<"cursor", VersionQuery, "fetchone", "init_oracle_spatial">>

C2_Witness ==
    /\ Loaded
    /\ conn.fetched[1] = Express \o <<" ", "E", "d", "i", "t", "i", "o", "n">>
    /\ conn.exc = "RuntimeError"
    /\ conn.log = <<"cursor", VersionQuery, "fetchone">>

====
